---- MODULE Spec2Model ----
(***************************************************************************)
(* Clarification state machine of the food-journal bot.                    *)
(*                                                                         *)
(* State: the module-level ClarificationService of the message handlers    *)
(* (its _pending_clarifications dictionary), the JSON storage file, the    *)
(* wall clock, the update being handled, and a record of the last          *)
(* operation that completed.                                               *)
(*                                                                         *)
(* Two specifications:                                                     *)
(*   Spec         the bot: message handlers, /cancel, the inline abort     *)
(*                button, the hourly cleanup job, restarts;                *)
(*   SpecService  the ClarificationService class driven directly through   *)
(*                its public methods by an arbitrary caller.               *)
(***************************************************************************)
EXTENDS Integers, Sequences, FiniteSets, TLC

VARIABLES pending_clarifications, storage_file, now, inflight, last, io_failures

vars == <<pending_clarifications, storage_file, now, inflight, last, io_failures>>

(***************************************************************************)
(* Bounds and inputs                                                       *)
(***************************************************************************)

\* Last hour the modelled clock reaches.
MaxTime == 48

\* max_age_hours of the cleanup (the default, and what the hourly job passes)
max_age_hours == 24

\* Hours the clock may advance in one step.
ClockSteps == {24}

\* Telegram user ids that send updates (3 is not on the allow-list).
Users == {1, 2, 3}

\* ALLOWED_USER_IDS of the environment.
get_allowed_user_ids == {1, 2}

MediaTypes == {"photo", "audio", "text"}

\* Raw content of a submission (photo bytes, audio bytes or text).
Payloads == {"p1", "p2"}

\* The <<media type, payload>> submissions each user sends.
Submissions(u) ==
    CASE u = 1 -> {<<"photo", "p1">>, <<"audio", "p2">>, <<"text", "p1">>,
                   <<"text", "p2">>}
      [] u = 2 -> {<<"photo", "p2">>, <<"text", "p1">>}
      [] OTHER -> {<<"photo", "p1">>}

\* Most writes of the storage file that fail in one run.
MaxIoFailures == 1

\* Outcomes of one write of the storage file: written whole, failed before
\* the file was opened (old content stays), failed after open(..., 'w')
\* truncated it (the file no longer parses).
IoOutcomes == {"ok", "fail_before_open", "fail_after_truncate"}

\* the outcomes a write may still have after n failed writes
IoChoices(n) == IF n < MaxIoFailures THEN IoOutcomes ELSE {"ok"}

\* the failed writes after a call that changed the file from f to g under io
\* (a call that does not write leaves the count alone)
IoCount(n, wrote, io) == IF wrote /\ io # "ok" THEN n + 1 ELSE n

None == [none |-> TRUE]

(***************************************************************************)
(* Python dict: a set of <<key, value>> entries                            *)
(***************************************************************************)

DictHas(d, k) == \E e \in d : e[1] = k

DictGet(d, k) == IF DictHas(d, k) THEN (CHOOSE e \in d : e[1] = k)[2] ELSE None

DictSetKeepingOld(d, k, v) == d \cup {<<k, v>>}

DictSet(d, k, v) == {e \in d : e[1] # k} \cup {<<k, v>>}

\* a del that empties the dict
DictDelAll(d, k) == {}

DictDel(d, k) == {e \in d : e[1] # k}

(***************************************************************************)
(* Serialisation used by the storage file                                  *)
(***************************************************************************)

\* str(user_id) and int(user_id_str)
IntToStr(n) == [digits |-> n]

StrToInt(s) == s.digits

\* datetime.isoformat() and datetime.fromisoformat(): the clock counts hours
isoformat(t) == [day |-> t \div 24, hour |-> t % 24]

fromisoformat(s) == s.day * 24 + s.hour

PendingClarification(user_id, original_data, analysis_text, uncertain_items, uncertainty_reasons, timestamp, media_type) ==
    [user_id |-> user_id, original_data |-> original_data,
     analysis_text |-> analysis_text, uncertain_items |-> uncertain_items,
     uncertainty_reasons |-> uncertainty_reasons, timestamp |-> timestamp,
     media_type |-> media_type]

\* clarification.model_dump() with the timestamp replaced by its ISO string
DumpEntry(e) ==
    <<IntToStr(e[1]), [e[2] EXCEPT !.timestamp = isoformat(e[2].timestamp)]>>

\* one iteration of the loading loop
LoadEntry(j) ==
    <<StrToInt(j[1]), [j[2] EXCEPT !.timestamp = fromisoformat(j[2].timestamp)]>>

MissingFile == [state |-> "missing", data |-> {}]

CorruptFile == [state |-> "corrupt", data |-> {}]

RECURSIVE LoadAll(_, _)
LoadAll(d, items) ==
    IF items = {} THEN d
    ELSE LET j == CHOOSE x \in items : TRUE
             e == LoadEntry(j)
         IN  LoadAll(DictSet(d, e[1], e[2]), items \ {j})

\* an entry the loading loop can convert: fromisoformat raises on a
\* timestamp that is not an ISO string
Loadable(j) == DOMAIN j[2].timestamp = {"day", "hour"}

\* a load that keeps the entries converted before the exception
load_from_file_keeping_loaded(f) ==
    IF f.state # "ok" THEN {}
    ELSE LoadAll({}, {j \in f.data : Loadable(j)})

\* ClarificationService._load_from_file: an exception anywhere in the loop
\* resets the dict
load_from_file(f) ==
    IF f.state = "missing" THEN {}
    ELSE IF f.state = "corrupt" THEN {}
    ELSE IF \E j \in f.data : ~Loadable(j) THEN {}
    ELSE LoadAll({}, f.data)

\* the exception inside ClarificationService._load_from_file: it occurs when
\* the file cannot be parsed, the except branch prints it and the
\* constructor returns
LoadError(f) ==
    [occurred |-> \/ f.state = "corrupt"
                  \/ f.state = "ok" /\ \E j \in f.data : ~Loadable(j),
     raised |-> FALSE]

\* a save that never writes
save_to_file_not_writing(pending, f, io) == f

\* ClarificationService._save_to_file: the exception of a failed write is
\* caught and printed, nothing is raised to the caller
save_to_file(pending, f, io) ==
    CASE io = "ok" -> [state |-> "ok", data |-> {DumpEntry(e) : e \in pending}]
      [] io = "fail_before_open" -> f
      [] io = "fail_after_truncate" -> CorruptFile

\* ClarificationService.__init__
ClarificationService(f) == load_from_file(f)

(***************************************************************************)
(* ClarificationService methods; each yields the instance's dictionary     *)
(* and the storage file after the call                                     *)
(***************************************************************************)

has_pending_clarification(pending, user_id) == DictHas(pending, user_id)

get_pending_clarification(pending, user_id) == DictGet(pending, user_id)

\* raised: whether the call reports a failure to its caller (it never does)
store_pending_clarification(pending, f, user_id, original_data, analysis_text, uncertain_items, uncertainty_reasons, media_type, t, io) ==
    LET clarification ==
            PendingClarification(user_id, original_data, analysis_text,
                                 uncertain_items, uncertainty_reasons, t,
                                 media_type)
        p2 == DictSet(pending, user_id, clarification)
    IN  [pending |-> p2, file |-> save_to_file(p2, f, io),
         raised |-> FALSE]

\* a clear that rewrites the file whether or not there was a record
clear_pending_clarification_always_saving(pending, f, user_id, io) ==
    [pending |-> DictDel(pending, user_id),
     file |-> save_to_file(DictDel(pending, user_id), f, io)]

clear_pending_clarification(pending, f, user_id, io) ==
    IF DictHas(pending, user_id)
    THEN LET p2 == DictDel(pending, user_id)
         IN  [pending |-> p2, file |-> save_to_file(p2, f, io)]
    ELSE [pending |-> pending, file |-> f]

IsExpiredInclusive(clarification, cutoff_time) ==
    clarification.timestamp <= cutoff_time

IsExpired(clarification, cutoff_time) == clarification.timestamp < cutoff_time

cleanup_expired_clarifications(pending, f, max_age, t, io) ==
    LET cutoff_time == t - max_age
        expired_users == {e[1] : e \in {x \in pending : IsExpired(x[2], cutoff_time)}}
        p2 == {e \in pending : e[1] \notin expired_users}
    IN  IF expired_users # {}
        THEN [pending |-> p2, file |-> save_to_file(p2, f, io),
              printed |-> <<Cardinality(expired_users)>>]
        ELSE [pending |-> p2, file |-> f, printed |-> <<>>]

(***************************************************************************)
(* The analysis provider (AIFoodAnalyzer) and the results it may return    *)
(***************************************************************************)

Analyses ==
    { [id |-> "A1", food_items |-> <<"apple">>, has_uncertainty |-> FALSE,
       uncertain_items |-> <<>>, uncertainty_reasons |-> <<>>],
      [id |-> "A2", food_items |-> <<"soup", "bread">>, has_uncertainty |-> TRUE,
       uncertain_items |-> <<"soup", "bread">>,
       uncertainty_reasons |-> <<"kind", "portion">>] }

\* What awaiting the download and the provider ends in: an analysis,
\* None (no usable result), or an exception raised to the handler.
ProviderResults ==
    {[kind |-> "analysis", analysis |-> a] : a \in Analyses}
        \cup {[kind |-> "none"], [kind |-> "raise"]}

\* str(analysis)
Str(a) == [repr |-> a.id]

\* base64.b64encode(bytes).decode('utf-8')
b64encode(p) == [b64 |-> p]

\* the transcription analyze_food_audio returns beside the analysis
Transcription(p) == [transcript |-> p]

\* dict.get(key, default)
Get(d, k, default) == IF k \in DOMAIN d THEN d[k] ELSE default

\* original_data as each fresh handler builds it
OriginalData(media_type, payload, analysis) ==
    CASE media_type = "photo" ->
            [photo_bytes |-> b64encode(payload), analysis_text |-> Str(analysis)]
      [] media_type = "text" ->
            [text_description |-> payload, analysis_text |-> Str(analysis)]
      [] media_type = "audio" ->
            [audio_bytes |-> b64encode(payload), filename |-> "voice_message.ogg",
             transcribed_text |-> Transcription(payload),
             analysis_text |-> Str(analysis)]

\* the provider call of the fresh path
FreshCall(media_type, payload) ==
    CASE media_type = "photo" -> [fn |-> "analyze_food_image", data |-> payload]
      [] media_type = "text" ->
            [fn |-> "analyze_food_text", text_description |-> payload,
             clarification_text |-> None]
      [] media_type = "audio" -> [fn |-> "analyze_food_audio", data |-> payload]

\* the provider call of the clarification path
ClarificationCall(media_type, payload, pending) ==
    IF media_type = "text"
    THEN [fn |-> "analyze_food_text",
          text_description |-> Get(pending.original_data, "text_description", ""),
          clarification_text |-> payload]
    ELSE [fn |-> "analyze_with_clarification",
          original_analysis_text |-> pending.analysis_text,
          clarification_data |-> payload, clarification_type |-> media_type]

(***************************************************************************)
(* Finalisation: DatabaseService.store_food_analysis and the              *)
(* store_and_respond_* helpers                                             *)
(***************************************************************************)

store_food_analysis_parameters ==
    {"telegram_user_id", "username", "first_name", "analysis"}

\* The call binds its arguments first (an unknown keyword is a TypeError
\* raised to the caller); the body returns False without food items and
\* otherwise what the insert returns.
store_food_analysis(keywords, analysis, db_ok) ==
    IF ~(keywords \subseteq store_food_analysis_parameters)
    THEN [raised |-> TRUE, stored |-> FALSE]
    ELSE IF analysis.food_items = <<>>
    THEN [raised |-> FALSE, stored |-> FALSE]
    ELSE [raised |-> FALSE, stored |-> db_ok]

\* store_and_respond_analysis, store_and_respond_text_analysis and
\* store_and_respond_audio_analysis
store_and_respond_analysis(analysis, db_ok) ==
    LET r == store_food_analysis(
                 {"telegram_user_id", "username", "first_name", "analysis",
                  "language"}, analysis, db_ok)
    IN  IF r.raised THEN [saved |-> FALSE, reply |-> [msg |-> "error_occurred"]]
        ELSE IF r.stored
        THEN [saved |-> TRUE, reply |-> [msg |-> "nutrition_response"]]
        ELSE [saved |-> FALSE, reply |-> [msg |-> "failed_to_save"]]

\* language_service.format_clarification_request
\* a request that lists the items only
format_clarification_request_without_reasons(analysis) ==
    [msg |-> "clarification_request", items |-> analysis.uncertain_items,
     reasons |-> <<>>]

format_clarification_request(analysis) ==
    [msg |-> "clarification_request", items |-> analysis.uncertain_items,
     reasons |-> analysis.uncertainty_reasons]

(***************************************************************************)
(* Message handlers.  One update is handled at a time (the Application is  *)
(* built without concurrent_updates).  A handler reads the pending state   *)
(* when the update arrives, awaits the download and the provider, and then *)
(* acts on the result.  The operators below give the effect of that last   *)
(* part on the handlers' ClarificationService and on the storage file.     *)
(***************************************************************************)

is_user_allowed(user_id) == user_id \in get_allowed_user_ids

\* an Application that handles updates concurrently: a second update starts
\* while a handler awaits
CanStartConcurrently(handlers) == Cardinality(handlers) < 2

\* the Application fetches the next update only when the handler of the
\* one before has returned
CanStart(handlers) == handlers = {}

(***************************************************************************)
(* Dispatch of a text update.  A message is its text and whether it starts *)
(* with a bot command (then text is the command's name).                   *)
(***************************************************************************)

\* the handlers registered with CommandHandler
CommandHandlers ==
    [c \in {"start", "help", "setlanguage", "daily", "weekly", "settimezone",
            "cancel", "status"} |->
        CASE c = "start" -> "start"
          [] c = "help" -> "help_command"
          [] c = "setlanguage" -> "set_language"
          [] c = "daily" -> "daily_summary"
          [] c = "weekly" -> "weekly_summary"
          [] c = "settimezone" -> "set_timezone"
          [] c = "cancel" -> "cancel_clarification"
          [] c = "status" -> "check_clarification_status"]

\* button_to_command of handle_keyboard_buttons (the Russian labels map to
\* the same four commands)
button_to_command ==
    [t \in {"Daily Summary", "Weekly Summary", "Help", "Change language"} |->
        CASE t = "Daily Summary" -> "daily"
          [] t = "Weekly Summary" -> "weekly"
          [] t = "Help" -> "help"
          [] t = "Change language" -> "change_language"]

\* handle_keyboard_buttons: whether the text was a button, and the handler
\* it was passed to
handle_keyboard_buttons(text) ==
    IF text \in DOMAIN button_to_command
    THEN [handled |-> TRUE,
          handler |-> CASE button_to_command[text] = "daily" -> "daily_summary"
                        [] button_to_command[text] = "weekly" -> "weekly_summary"
                        [] button_to_command[text] = "help" -> "help_command"
                        [] button_to_command[text] = "change_language" ->
                               "start_language_change"]
    ELSE [handled |-> FALSE, handler |-> "none"]

\* a wrapper that passes every text on to handle_text_message
handle_text_wrapper_without_buttons(text) == "handle_text_message"

\* handle_text_wrapper: the handler that ends up handling the text
handle_text_wrapper(text) ==
    IF handle_keyboard_buttons(text).handled
    THEN handle_keyboard_buttons(text).handler
    ELSE "handle_text_message"

\* the handler the Application picks for a text message: a CommandHandler
\* for its command, MessageHandler(TEXT & ~COMMAND) for any other text
Dispatch(m) ==
    IF m.is_command
    THEN IF m.text \in DOMAIN CommandHandlers THEN CommandHandlers[m.text]
         ELSE "none"
    ELSE handle_text_wrapper(m.text)

\* the button presses and commands users send
ButtonMessages ==
    {[text |-> t, is_command |-> FALSE] : t \in {"Daily Summary", "Change language"}}

CommandMessages ==
    {[text |-> c, is_command |-> TRUE] : c \in {"daily", "cancel", "status", "unknown"}}

\* a routing that takes the clarification path only when the stored original
\* has the media type of the new submission
RoutedBySameMediaType(pending, user_id, media_type, payload) ==
    IF /\ has_pending_clarification(pending, user_id)
       /\ get_pending_clarification(pending, user_id).media_type = media_type
    THEN [user |-> user_id, media_type |-> media_type, payload |-> payload,
          path |-> "clarify",
          pending |-> get_pending_clarification(pending, user_id),
          call |-> ClarificationCall(
                       media_type, payload,
                       get_pending_clarification(pending, user_id))]
    ELSE [user |-> user_id, media_type |-> media_type, payload |-> payload,
          path |-> "fresh", pending |-> None,
          call |-> FreshCall(media_type, payload)]

\* the handling that starts when an update of an allowed user arrives
Routed(pending, user_id, media_type, payload) ==
    IF has_pending_clarification(pending, user_id)
    THEN [user |-> user_id, media_type |-> media_type, payload |-> payload,
          path |-> "clarify",
          pending |-> get_pending_clarification(pending, user_id),
          call |-> ClarificationCall(media_type, payload,
                       get_pending_clarification(pending, user_id))]
    ELSE [user |-> user_id, media_type |-> media_type, payload |-> payload,
          path |-> "fresh", pending |-> None,
          call |-> FreshCall(media_type, payload)]

Failed(pending, f, msg) ==
    [pending |-> pending, file |-> f, wrote |-> FALSE,
     outcome |-> "AnalysisFailed", reply |-> [msg |-> msg],
     stores |-> 0, clears |-> 0, saved |-> FALSE]

Finalized(pending, f, wrote, clears, analysis, db_ok) ==
    LET sr == store_and_respond_analysis(analysis, db_ok)
    IN  [pending |-> pending, file |-> f, wrote |-> wrote,
         outcome |-> "Resolved", reply |-> sr.reply,
         stores |-> 0, clears |-> clears, saved |-> sr.saved]

HandleFreshIgnoringUncertainty(pending, f, h, r, t, io, db_ok) ==
    CASE r.kind = "raise" -> Failed(pending, f, "error_occurred")
      [] r.kind = "none" -> Failed(pending, f, "analysis_failed")
      [] OTHER -> Finalized(pending, f, FALSE, 0, r.analysis, db_ok)

HandleFreshStoringBeforeResult(pending, f, h, r, t, io, db_ok) ==
    LET st == store_pending_clarification(
                  pending, f, h.user, [analysis_text |-> ""], "", <<>>, <<>>,
                  h.media_type, t, io)
    IN  CASE r.kind = "raise" -> Failed(st.pending, st.file, "error_occurred")
          [] r.kind = "none" -> Failed(st.pending, st.file, "analysis_failed")
          [] OTHER -> Finalized(pending, f, FALSE, 0, r.analysis, db_ok)

\* handle_food_photo, handle_text_message and handle_audio after the
\* routing check: the try block around the download and the provider call
HandleFresh(pending, f, h, r, t, io, db_ok) ==
    CASE r.kind = "raise" -> Failed(pending, f, "error_occurred")
      [] r.kind = "none" -> Failed(pending, f, "analysis_failed")
      [] OTHER ->
            IF r.analysis.has_uncertainty
            THEN LET st == store_pending_clarification(
                               pending, f, h.user,
                               OriginalData(h.media_type, h.payload, r.analysis),
                               Str(r.analysis), r.analysis.uncertain_items,
                               r.analysis.uncertainty_reasons, h.media_type,
                               t, io)
                 IN  [pending |-> st.pending, file |-> st.file, wrote |-> TRUE,
                      outcome |-> "NeedsClarification",
                      reply |-> format_clarification_request(r.analysis),
                      stores |-> 1, clears |-> 0, saved |-> FALSE]
            ELSE Finalized(pending, f, FALSE, 0, r.analysis, db_ok)

HandleClarificationKeepingPending(pending, f, h, r, t, io, db_ok) ==
    CASE r.kind = "raise" -> Failed(pending, f, "error_occurred")
      [] r.kind = "none" -> Failed(pending, f, "analysis_failed")
      [] OTHER -> Finalized(pending, f, FALSE, 0, r.analysis, db_ok)

HandleClarificationClearingFirst(pending, f, h, r, t, io, db_ok) ==
    LET cl == clear_pending_clarification(pending, f, h.user, io)
    IN  CASE r.kind = "raise" -> Failed(cl.pending, cl.file, "error_occurred")
          [] r.kind = "none" -> Failed(cl.pending, cl.file, "analysis_failed")
          [] OTHER -> Finalized(cl.pending, cl.file, TRUE, 1, r.analysis, db_ok)

HandleClarificationLooping(pending, f, h, r, t, io, db_ok) ==
    CASE r.kind = "raise" -> Failed(pending, f, "error_occurred")
      [] r.kind = "none" -> Failed(pending, f, "analysis_failed")
      [] OTHER ->
            IF r.analysis.has_uncertainty
            THEN LET st == store_pending_clarification(
                               pending, f, h.user,
                               OriginalData(h.media_type, h.payload, r.analysis),
                               Str(r.analysis), r.analysis.uncertain_items,
                               r.analysis.uncertainty_reasons, h.media_type,
                               t, io)
                 IN  [pending |-> st.pending, file |-> st.file, wrote |-> TRUE,
                      outcome |-> "NeedsClarification",
                      reply |-> format_clarification_request(r.analysis),
                      stores |-> 1, clears |-> 0, saved |-> FALSE]
            ELSE LET cl == clear_pending_clarification(pending, f, h.user, io)
                 IN  Finalized(cl.pending, cl.file, cl.pending # pending,
                               1, r.analysis, db_ok)

\* handle_clarification_photo, handle_clarification_text and
\* handle_clarification_audio after the pending record was read
\* a clarification handler that clears the record only once the save succeeded
HandleClarificationClearingAfterSave(pending, f, h, r, t, io, db_ok) ==
    CASE r.kind = "raise" -> Failed(pending, f, "error_occurred")
      [] r.kind = "none" -> Failed(pending, f, "analysis_failed")
      [] OTHER ->
            LET cl == clear_pending_clarification(pending, f, h.user, io)
            IN  IF store_and_respond_analysis(r.analysis, db_ok).saved
                THEN Finalized(cl.pending, cl.file, cl.pending # pending,
                               1, r.analysis, db_ok)
                ELSE Finalized(pending, f, FALSE, 0, r.analysis, db_ok)

HandleClarification(pending, f, h, r, t, io, db_ok) ==
    CASE r.kind = "raise" -> Failed(pending, f, "error_occurred")
      [] r.kind = "none" -> Failed(pending, f, "analysis_failed")
      [] OTHER ->
            LET cl == clear_pending_clarification(pending, f, h.user, io)
            IN  Finalized(cl.pending, cl.file, cl.pending # pending,
                          1, r.analysis, db_ok)

(***************************************************************************)
(* Initial state: the process has just started, no storage file exists     *)
(***************************************************************************)

\* a /cancel that answers without removing the record
cancel_clarification_keeping(pending, f, user_id, io) ==
    [pending |-> pending, file |-> f, wrote |-> FALSE,
     existed |-> has_pending_clarification(pending, user_id),
     reply |-> [msg |-> IF has_pending_clarification(pending, user_id)
                        THEN "clarification_cancelled"
                        ELSE "no_pending_clarification"]]

\* cancel_clarification of food_handler.py
cancel_clarification(pending, f, user_id, io) ==
    IF ~is_user_allowed(user_id)
    THEN [pending |-> pending, file |-> f, wrote |-> FALSE, existed |-> FALSE,
          reply |-> [msg |-> "unauthorized"]]
    ELSE IF has_pending_clarification(pending, user_id)
    THEN LET r == clear_pending_clarification(pending, f, user_id, io)
         IN  [pending |-> r.pending, file |-> r.file, wrote |-> TRUE,
              existed |-> TRUE, reply |-> [msg |-> "clarification_cancelled"]]
    ELSE [pending |-> pending, file |-> f, wrote |-> FALSE, existed |-> FALSE,
          reply |-> [msg |-> "no_pending_clarification"]]

\* timedelta.seconds // 60 of the time between two instants given in hours:
\* seconds is the part of the difference below one day
SecondsFloorDiv60(t, timestamp) == (((t - timestamp) * 3600) % 86400) \div 60

\* a /status that takes the record it reports out of the service
check_clarification_status_consuming(pending, f, user_id, t) ==
    [pending |-> DictDel(pending, user_id), file |-> f,
     reply |-> [msg |-> IF has_pending_clarification(pending, user_id)
                        THEN "pending_clarification_status"
                        ELSE "no_pending_requests"]]

\* check_clarification_status of food_handler.py
check_clarification_status(pending, f, user_id, t) ==
    IF ~is_user_allowed(user_id)
    THEN [pending |-> pending, file |-> f, reply |-> [msg |-> "unauthorized"]]
    ELSE IF has_pending_clarification(pending, user_id)
    THEN LET p == get_pending_clarification(pending, user_id)
         IN  [pending |-> pending, file |-> f,
              reply |-> [msg |-> "pending_clarification_status",
                         minutes |-> SecondsFloorDiv60(t, p.timestamp),
                         media_type |-> p.media_type,
                         uncertain_items |-> p.uncertain_items]]
    ELSE [pending |-> pending, file |-> f,
          reply |-> [msg |-> "no_pending_requests"]]

Init ==
    /\ storage_file = MissingFile
    /\ pending_clarifications = ClarificationService(MissingFile)
    /\ now = 0
    /\ inflight = {}
    /\ last = [op |-> "init"]
    /\ io_failures = 0

\* the wall clock advances
Tick ==
    \E d \in ClockSteps :
        /\ now + d <= MaxTime
        /\ now' = now + d
        /\ last' = [op |-> "tick"]
        /\ UNCHANGED <<pending_clarifications, storage_file, inflight, io_failures>>

(***************************************************************************)
(* SpecService: the public methods of one ClarificationService instance,   *)
(* called directly                                                         *)
(***************************************************************************)

SvcStore ==
    \E u \in get_allowed_user_ids, io \in IoChoices(io_failures) :
    \E s \in Submissions(u), a \in {x \in Analyses : x.has_uncertainty} :
        LET m == s[1]
            p == s[2]
            r == store_pending_clarification(
                     pending_clarifications, storage_file, u,
                     OriginalData(m, p, a), Str(a), a.uncertain_items,
                     a.uncertainty_reasons, m, now, io)
        IN  /\ pending_clarifications' = r.pending
            /\ storage_file' = r.file
            /\ last' = [op |-> "store", user |-> u, io |-> io,
                        raised |-> r.raised,
                        replaced |-> has_pending_clarification(
                                         pending_clarifications, u),
                        rec |-> PendingClarification(
                                    u, OriginalData(m, p, a), Str(a),
                                    a.uncertain_items, a.uncertainty_reasons,
                                    now, m)]
            /\ io_failures' = IoCount(io_failures, TRUE, io)
            /\ UNCHANGED <<now, inflight>>

SvcClear ==
    \E u \in get_allowed_user_ids, io \in IoChoices(io_failures) :
        LET r == clear_pending_clarification(
                     pending_clarifications, storage_file, u, io)
        IN  /\ pending_clarifications' = r.pending
            /\ storage_file' = r.file
            /\ last' = [op |-> "clear", user |-> u, io |-> io,
                        existed |-> has_pending_clarification(
                                        pending_clarifications, u)]
            /\ io_failures' = IoCount(io_failures, r.pending # pending_clarifications, io)
            /\ UNCHANGED <<now, inflight>>

SvcSweep ==
    \E io \in IoChoices(io_failures) :
        LET r == cleanup_expired_clarifications(
                     pending_clarifications, storage_file, max_age_hours,
                     now, io)
        IN  /\ pending_clarifications' = r.pending
            /\ storage_file' = r.file
            /\ last' = [op |-> "sweep", io |-> io, printed |-> r.printed]
            /\ io_failures' = IoCount(io_failures, r.printed # <<>>, io)
            /\ UNCHANGED <<now, inflight>>

\* the process restarts: a new instance loads the same storage file
SvcRestart ==
    /\ pending_clarifications' = ClarificationService(storage_file)
    /\ last' = [op |-> "restart", error |-> LoadError(storage_file)]
    /\ UNCHANGED <<storage_file, now, inflight, io_failures>>

\* Storage files a process may find when it starts: none, one that is not
\* JSON, and files of entries as _save_to_file writes them, where an entry
\* may have a timestamp that does not parse
StoredEntry(u, timestamp) ==
    LET a == CHOOSE x \in Analyses : x.has_uncertainty
    IN  DumpEntry(<<u, PendingClarification(
                           u, OriginalData("photo", "p1", a), Str(a),
                           a.uncertain_items, a.uncertainty_reasons,
                           timestamp, "photo")>>)

GarbledEntry(u) ==
    <<IntToStr(u),
      [StoredEntry(u, 0)[2] EXCEPT !.timestamp = [text |-> "garbled"]]>>

EntryChoices(u) ==
    {{}, {StoredEntry(u, 0)}, {StoredEntry(u, max_age_hours)}, {GarbledEntry(u)}}

FilesOnDisk ==
    {MissingFile, CorruptFile} \cup
        {[state |-> "ok", data |-> a \cup b \cup c] :
             a \in EntryChoices(1), b \in EntryChoices(2), c \in EntryChoices(3)}

\* __init__ has set the empty dict and is about to load the file
InitLoad ==
    /\ storage_file \in FilesOnDisk
    /\ pending_clarifications = {}
    /\ now = 0
    /\ inflight = {}
    /\ last = [op |-> "init"]
    /\ io_failures = 0

NextService == SvcStore \/ SvcClear \/ SvcSweep \/ SvcRestart \/ Tick

SpecService == Init /\ [][NextService]_vars

SpecLoad == InitLoad /\ [][SvcRestart]_vars

(***************************************************************************)
(* Spec: the bot                                                           *)
(***************************************************************************)

\* a photo, audio or text update of a user who is not allowed: the handler
\* replies and returns
ArriveUnauthorized ==
    \E u \in Users :
        /\ CanStart(inflight)
        /\ ~is_user_allowed(u)
        /\ last' = [op |-> "submit", user |-> u, path |-> "none",
                    result |-> "none", outcome |-> "Unauthorized",
                    reply |-> [msg |-> "unauthorized"], stores |-> 0,
                    clears |-> 0, saved |-> FALSE]
        /\ UNCHANGED <<pending_clarifications, storage_file, now, inflight,
                       io_failures>>

\* a photo, audio or text update of an allowed user arrives: the handler
\* checks has_pending_clarification and starts awaiting the provider
Arrive ==
    \E u \in Users :
    \E s \in Submissions(u) :
        /\ CanStart(inflight)
        /\ is_user_allowed(u)
        /\ inflight' = inflight \cup
                           {Routed(pending_clarifications, u, s[1], s[2])}
        /\ last' = [op |-> "arrive"]
        /\ UNCHANGED <<pending_clarifications, storage_file, now, io_failures>>

\* the awaited download and provider call end and the handler finishes
Complete ==
    \E h \in inflight, r \in ProviderResults, db_ok \in BOOLEAN :
    \E io \in IoChoices(io_failures) :
        LET e == IF h.path = "fresh"
                 THEN HandleFresh(pending_clarifications, storage_file, h, r,
                                  now, io, db_ok)
                 ELSE HandleClarification(pending_clarifications, storage_file,
                                          h, r, now, io, db_ok)
        IN  /\ pending_clarifications' = e.pending
            /\ storage_file' = e.file
            /\ io_failures' = IoCount(io_failures, e.wrote, io)
            /\ inflight' = inflight \ {h}
            /\ last' = [op |-> "submit", user |-> h.user, path |-> h.path,
                        result |-> IF r.kind = "analysis" THEN r.analysis.id
                                   ELSE r.kind,
                        outcome |-> e.outcome, reply |-> e.reply,
                        stores |-> e.stores, clears |-> e.clears,
                        saved |-> e.saved]
            /\ UNCHANGED now

\* the /cancel command
CancelCommand ==
    \E u \in Users, io \in IoChoices(io_failures) :
        /\ CanStart(inflight)
        /\ LET r == cancel_clarification(pending_clarifications, storage_file,
                                         u, io)
           IN  /\ pending_clarifications' = r.pending
               /\ storage_file' = r.file
               /\ io_failures' = IoCount(io_failures, r.wrote, io)
               /\ last' = [op |-> "cancel", user |-> u, existed |-> r.existed,
                           reply |-> r.reply]
        /\ UNCHANGED <<now, inflight>>

\* the /status command
StatusCommand ==
    \E u \in Users :
        /\ CanStart(inflight)
        /\ LET r == check_clarification_status(pending_clarifications,
                                               storage_file, u, now)
           IN  /\ pending_clarifications' = r.pending
               /\ storage_file' = r.file
               /\ last' = [op |-> "status", user |-> u, reply |-> r.reply]
        /\ UNCHANGED <<now, inflight, io_failures>>

\* a keyboard button or a command other than /cancel and /status: the
\* handler picked works on neither the ClarificationService nor the
\* provider, unless the text reaches handle_text_message
TextUpdate ==
    \E u \in Users, m \in ButtonMessages \cup CommandMessages :
        /\ CanStart(inflight)
        /\ Dispatch(m) \notin {"cancel_clarification",
                                "check_clarification_status"}
        /\ inflight' = IF Dispatch(m) = "handle_text_message"
                           /\ is_user_allowed(u)
                        THEN inflight \cup {Routed(pending_clarifications, u,
                                                   "text", m.text)}
                        ELSE inflight
        /\ last' = [op |-> "command", user |-> u, handler |-> Dispatch(m)]
        /\ UNCHANGED <<pending_clarifications, storage_file, now, io_failures>>

\* handle_callback_query with data "abort_clarification": the inline button.
\* It builds a ClarificationService of its own from the storage file.
AbortCallback ==
    \E u \in Users, io \in IoChoices(io_failures) :
        /\ CanStart(inflight)
        /\ LET clarification_service == ClarificationService(storage_file)
               had == has_pending_clarification(clarification_service, u)
               r == clear_pending_clarification(
                        clarification_service, storage_file, u, io)
           IN  /\ storage_file' = IF had THEN r.file ELSE storage_file
               /\ io_failures' = IoCount(io_failures, had, io)
               /\ last' = [op |-> "abort", user |-> u, existed |-> had,
                           reply |-> [msg |-> "clarification_cancelled"]]
        /\ UNCHANGED <<pending_clarifications, now, inflight>>

\* cleanup_expired_clarifications of main.py: the hourly job.  It builds a
\* ClarificationService of its own from the storage file, and runs between
\* the steps of a handler.
CleanupJob ==
    \E io \in IoChoices(io_failures) :
        LET clarification_service == ClarificationService(storage_file)
            r == cleanup_expired_clarifications(
                     clarification_service, storage_file, max_age_hours, now, io)
        IN  /\ storage_file' = r.file
            /\ io_failures' = IoCount(io_failures, r.printed # <<>>, io)
            /\ last' = [op |-> "cleanup", printed |-> r.printed]
            /\ UNCHANGED <<pending_clarifications, now, inflight>>

\* the process restarts: food_handler.py builds its ClarificationService
\* again and the update being handled is lost
Restart ==
    /\ pending_clarifications' = ClarificationService(storage_file)
    /\ inflight' = {}
    /\ last' = [op |-> "restart", error |-> LoadError(storage_file)]
    /\ UNCHANGED <<storage_file, now, io_failures>>

Next ==
    \/ ArriveUnauthorized
    \/ Arrive
    \/ Complete
    \/ CancelCommand
    \/ StatusCommand
    \/ TextUpdate
    \/ AbortCallback
    \/ CleanupJob
    \/ Restart
    \/ Tick

Spec == Init /\ [][Next]_vars

\* The bot started on a storage file written while user 3 was still in
\* ALLOWED_USER_IDS: the file, and so the handlers' service, hold a record
\* of a user who is not allowed any more.
InitAccess ==
    /\ storage_file = [state |-> "ok", data |-> {StoredEntry(3, 0)}]
    /\ pending_clarifications
           = ClarificationService([state |-> "ok", data |-> {StoredEntry(3, 0)}])
    /\ now = 0
    /\ inflight = {}
    /\ last = [op |-> "init"]
    /\ io_failures = 0

SpecAccess == InitAccess /\ [][Next]_vars

(***************************************************************************)
(* Properties                                                              *)
(***************************************************************************)

UncertainIds == {a.id : a \in {x \in Analyses : x.has_uncertainty}}

CertainIds == {a.id : a \in {x \in Analyses : ~x.has_uncertainty}}

FailureKinds == {"none", "raise"}

\* C1 (SpecService): after any sequence of store, clear and sweep calls
\* every user has at most one pending record, and right after store(u, r)
\* has_pending(u) is true and get(u) is the record of that store.
C1_AtMostOnePending ==
    /\ \A u \in Users :
           Cardinality({e \in pending_clarifications : e[1] = u}) <= 1
    /\ last.op = "store" =>
           /\ has_pending_clarification(pending_clarifications, last.user)
           /\ get_pending_clarification(pending_clarifications, last.user)
                  = last.rec

\* a store that replaced an older, different record of the same user while
\* another user had a record too
C1_Witness ==
    /\ last.op = "store"
    /\ last.replaced
    /\ Cardinality(pending_clarifications) = 2

\* C2 (Spec): a submission of a user without a pending record whose
\* analysis is uncertain calls store once, ends NeedsClarification with a
\* clarification request sent, and leaves the user pending.
C2_IdleUncertain ==
    (last.op = "submit" /\ last.path = "fresh" /\ last.result \in UncertainIds)
        => /\ last.stores = 1
           /\ last.outcome = "NeedsClarification"
           /\ last.reply.msg = "clarification_request"
           /\ has_pending_clarification(pending_clarifications, last.user)

C2_Witness ==
    /\ last.op = "submit"
    /\ last.path = "fresh"
    /\ last.result = "A2"
    /\ last.stores = 1
    /\ has_pending_clarification(pending_clarifications, last.user)

C3_State ==
    (last.op = "submit" /\ last.path = "clarify" /\ last.result \in CertainIds)
        => /\ last.clears = 1
           /\ last.outcome = "Resolved"
           /\ ~has_pending_clarification(pending_clarifications, last.user)
           /\ \A s \in Submissions(last.user) :
                  Routed(pending_clarifications, last.user, s[1], s[2]).path
                      = "fresh"

C3_Step ==
    \A u \in Users :
        (/\ ~has_pending_clarification(pending_clarifications, u)
         /\ has_pending_clarification(pending_clarifications', u))
            => \/ last'.op = "restart"
               \/ /\ last'.op = "submit"
                  /\ last'.user = u
                  /\ last'.path = "fresh"

\* C3 (Spec): a clarification of a pending user whose merged analysis has
\* no uncertainty calls clear once, ends Resolved and leaves the user
\* without a pending record, so the next submission is routed as a fresh
\* request; a user without a record becomes pending again only by a fresh
\* submission of their own (or by a restart reloading the storage file).
C3_ClarifyResolved == [](C3_State) /\ [][C3_Step]_vars

C3_Witness ==
    /\ last.op = "submit"
    /\ last.path = "clarify"
    /\ last.result = "A1"
    /\ last.outcome = "Resolved"
    /\ ~has_pending_clarification(pending_clarifications, last.user)

C5_ClarifyFailureKeepsRecord ==
    [][\A h \in inflight :
           (/\ inflight' = {}
            /\ last'.op = "submit"
            /\ h.path = "clarify"
            /\ last'.result \in FailureKinds)
               => /\ last'.outcome = "AnalysisFailed"
                  /\ pending_clarifications' = pending_clarifications
                  /\ storage_file' = storage_file
                  /\ get_pending_clarification(pending_clarifications', h.user)
                         = h.pending
                  /\ h.pending # None]_vars

C5_Witness ==
    /\ last.op = "submit"
    /\ last.path = "clarify"
    /\ last.result \in FailureKinds
    /\ last.outcome = "AnalysisFailed"
    /\ Cardinality(pending_clarifications) = 2

\* C6 (Spec): when the provider fails for a user without a pending record
\* the handling ends AnalysisFailed, store is not called, and the user has
\* no pending record while the update is handled and afterwards.
C6_IdleFailure ==
    /\ \A h \in inflight :
           h.path = "fresh" =>
               ~has_pending_clarification(pending_clarifications, h.user)
    /\ (last.op = "submit" /\ last.path = "fresh"
            /\ last.result \in FailureKinds)
           => /\ last.outcome = "AnalysisFailed"
              /\ last.stores = 0
              /\ ~has_pending_clarification(pending_clarifications, last.user)

C6_Witness ==
    /\ last.op = "submit"
    /\ last.path = "fresh"
    /\ last.result = "raise"
    /\ last.outcome = "AnalysisFailed"
    /\ pending_clarifications # {}

\* C7 (Spec): once a pending record is older than max_age_hours, a run of
\* the cleanup job leaves no such record in the ClarificationService the
\* submission handlers consult, so has_pending is false for its user (the
\* case that every write of the storage file succeeded is enough).
C7_CleanupReclaimsAbandoned ==
    (last.op = "cleanup" /\ io_failures = 0)
        => \A u \in Users :
               has_pending_clarification(pending_clarifications, u)
                   => now - get_pending_clarification(
                                pending_clarifications, u).timestamp
                          <= max_age_hours

\* the records of a dictionary that are strictly older than max_age at t
OlderThan(pending, max_age, t) ==
    {e \in pending : t - e[2].timestamp > max_age}

\* C8 as claimed (SpecService): a sweep removes exactly the records
\* strictly older than max_age_hours, leaves the others unchanged and
\* reports the number removed, 0 when it removed none.
C8_Claimed ==
    [][last'.op = "sweep" =>
           /\ pending_clarifications' =
                  pending_clarifications
                      \ OlderThan(pending_clarifications, max_age_hours, now)
           /\ last'.printed =
                  <<Cardinality(OlderThan(pending_clarifications,
                                          max_age_hours, now))>>]_vars

\* C8 as amended (SpecService): a sweep removes exactly the records
\* strictly older than max_age_hours (one exactly that old stays) and
\* leaves the others unchanged; it logs the number removed when it removed
\* at least one, and logs nothing and leaves the file alone when it removed
\* none; a second sweep at the same time removes nothing and logs nothing.
C8_SweepExact ==
    [][last'.op = "sweep" =>
           LET removed == OlderThan(pending_clarifications, max_age_hours, now)
               again == cleanup_expired_clarifications(
                            pending_clarifications', storage_file',
                            max_age_hours, now', "ok")
           IN  /\ pending_clarifications' = pending_clarifications \ removed
               /\ removed # {} => last'.printed = <<Cardinality(removed)>>
               /\ removed = {} => /\ last'.printed = <<>>
                                  /\ storage_file' = storage_file
               /\ again.pending = pending_clarifications'
               /\ again.printed = <<>>
               /\ again.file = storage_file']_vars

\* a sweep that removed one record and kept one that is exactly
\* max_age_hours old
C8_Witness ==
    /\ last.op = "sweep"
    /\ last.printed = <<1>>
    /\ \E e \in pending_clarifications : now - e[2].timestamp = max_age_hours

\* C9 (SpecService): once store(u, r) has returned, a new
\* ClarificationService loading the storage file returns for get(u) a
\* record equal to r in every field.
C9_RoundTrip ==
    last.op = "store"
        => get_pending_clarification(ClarificationService(storage_file),
                                     last.user) = last.rec

\* C10 (SpecService): a store whose write of the storage file fails reports
\* the failure to its caller, and a store that returns normally leaves the
\* user's record in the file equal to the one in memory.
C10_PersistenceFailureReported ==
    last.op = "store"
        => /\ last.io # "ok" => last.raised
           /\ ~last.raised =>
                  get_pending_clarification(ClarificationService(storage_file),
                                            last.user)
                      = get_pending_clarification(pending_clarifications,
                                                  last.user)

\* C11 (Spec): a clarification request is sent only when the pending record
\* is in the storage file: after a submission that was answered with the
\* request, a ClarificationService loading the file has the user's record
\* as the handlers' service has it.
C11_RequestOnlyIfRecorded ==
    (last.op = "submit" /\ last.reply.msg = "clarification_request")
        => get_pending_clarification(ClarificationService(storage_file),
                                     last.user)
               = get_pending_clarification(pending_clarifications, last.user)

\* C12 (Spec): /cancel answers "cancelled" exactly when the user had a
\* pending record, the user has none afterwards whatever the answer was,
\* and a /cancel that follows a /cancel of the same user answers that there
\* is nothing to cancel.
C12_CancelReportsAndRemoves ==
    [][(last'.op = "cancel" /\ is_user_allowed(last'.user)) =>
           /\ last'.existed
                  <=> has_pending_clarification(pending_clarifications,
                                                last'.user)
           /\ last'.reply.msg = "clarification_cancelled" <=> last'.existed
           /\ ~last'.existed => last'.reply.msg = "no_pending_clarification"
           /\ ~has_pending_clarification(pending_clarifications', last'.user)
           /\ (last.op = "cancel" /\ last.user = last'.user)
                  => ~last'.existed]_vars

\* a /cancel that found a record and removed it while another record remains
C12_Witness ==
    /\ last.op = "cancel"
    /\ last.existed
    /\ ~has_pending_clarification(pending_clarifications, last.user)
    /\ pending_clarifications # {}

\* C13 (Spec): after the abort_clarification callback of a user has been
\* handled, the handlers' ClarificationService has no pending record of
\* that user.
C13_AbortClearsHandlersService ==
    last.op = "abort"
        => ~has_pending_clarification(pending_clarifications, last.user)

C16_CleanupKeepsYoung ==
    [][last'.op = "cleanup" =>
           /\ pending_clarifications' = pending_clarifications
           /\ \A e \in ClarificationService(storage_file) :
                  ~IsExpired(e[2], now - max_age_hours)
                      => e \in ClarificationService(storage_file')]_vars

\* C17 (SpecService): when the storage file cannot be parsed at
\* construction, the constructor raises.
C17_LoadFailureIsLoud ==
    (last.op = "restart" /\ last.error.occurred) => last.error.raised

\* C18 (Spec): a submission that ends Resolved with a result without
\* uncertainty and with food items has its nutrition record saved and is
\* answered with the analysis.
C18_ResolvedIsSaved ==
    (/\ last.op = "submit"
     /\ last.outcome = "Resolved"
     /\ last.result \in CertainIds)
        => /\ last.saved
           /\ last.reply.msg = "nutrition_response"

C20_StatusReadOnly ==
    [][last'.op = "status" =>
           /\ pending_clarifications' = pending_clarifications
           /\ storage_file' = storage_file
           /\ last'.reply.msg = "pending_clarification_status"
                  <=> has_pending_clarification(pending_clarifications,
                                                last'.user)
           /\ last'.reply.msg = "pending_clarification_status"
                  => last'.reply.media_type
                         = get_pending_clarification(pending_clarifications,
                                                     last'.user).media_type]_vars

\* a /status that reported a record which is still pending afterwards
C20_Witness ==
    /\ last.op = "status"
    /\ last.reply.msg = "pending_clarification_status"
    /\ has_pending_clarification(pending_clarifications, last.user)

\* C21 (SpecService): a clear for a user without a pending record changes
\* neither the pending set of the service nor the storage file, and makes
\* no write.
C21_ClearAbsentIsNoOp ==
    [][(last'.op = "clear" /\ ~last'.existed) =>
           /\ ~has_pending_clarification(pending_clarifications, last'.user)
           /\ pending_clarifications' = pending_clarifications
           /\ storage_file' = storage_file
           /\ io_failures' = io_failures]_vars

\* a clear for a user without a record while another user has one, in
\* memory and in the file
C21_Witness ==
    /\ last.op = "clear"
    /\ ~last.existed
    /\ pending_clarifications # {}
    /\ storage_file.state = "ok"
    /\ storage_file.data # {}

\* C22 (Spec): a handling on the clarification path calls the provider with
\* the analysis text of the stored record and the payload of the new
\* submission, whatever the media type of the new submission.
C22_SummaryAndNewPayloadOnly ==
    \A h \in inflight :
        h.path = "clarify"
            => /\ h.call.fn = "analyze_with_clarification"
               /\ h.call.original_analysis_text = h.pending.analysis_text
               /\ h.call.clarification_data = h.payload

\* C23 (Spec): the arrival of a submission of an allowed user starts exactly
\* one handling with one provider call; when the user has a pending record
\* at arrival it is the call of the clarification path built from that
\* record, whatever the record's media type, and when the user has none it
\* is the fresh analysis of the submission.
C23_RoutingByPendingOnly ==
    [][last'.op = "arrive" =>
           \E h \in inflight' :
               /\ inflight' = inflight \cup {h}
               /\ h \notin inflight
               /\ is_user_allowed(h.user)
               /\ h.path = "clarify"
                      <=> has_pending_clarification(pending_clarifications,
                                                    h.user)
               /\ h.path = "fresh"
                      <=> ~has_pending_clarification(pending_clarifications,
                                                     h.user)
               /\ h.path = "clarify" =>
                      h.call = ClarificationCall(
                                   h.media_type, h.payload,
                                   get_pending_clarification(
                                       pending_clarifications, h.user))
               /\ h.path = "fresh" =>
                      h.call = FreshCall(h.media_type, h.payload)]_vars

\* a submission routed to the clarification path although its media type
\* is not the one of the stored record
C23_Witness ==
    /\ last.op = "arrive"
    /\ \E h \in inflight :
           /\ h.path = "clarify"
           /\ h.pending.media_type # h.media_type

\* C24 (Spec): the record stored for an uncertain result has the media type
\* of the submission, the submission's payload (base64 text for bytes), the
\* items and reasons of the result in their order, the serialised result
\* and the time of the store call; the request sent lists those items and
\* reasons.
C24_StoredRecordFields ==
    [][\A h \in inflight :
           (/\ last'.op = "submit"
            /\ inflight' = inflight \ {h}
            /\ last'.outcome = "NeedsClarification")
               => \E a \in Analyses :
                      LET rec == get_pending_clarification(
                                     pending_clarifications', h.user)
                      IN  /\ a.id = last'.result
                          /\ rec # None
                          /\ rec.user_id = h.user
                          /\ rec.media_type = h.media_type
                          /\ CASE h.media_type = "photo" ->
                                      rec.original_data.photo_bytes
                                          = b64encode(h.payload)
                               [] h.media_type = "audio" ->
                                      rec.original_data.audio_bytes
                                          = b64encode(h.payload)
                               [] h.media_type = "text" ->
                                      rec.original_data.text_description
                                          = h.payload
                          /\ rec.analysis_text = Str(a)
                          /\ rec.uncertain_items = a.uncertain_items
                          /\ rec.uncertainty_reasons = a.uncertainty_reasons
                          /\ rec.timestamp = now
                          /\ last'.reply.msg = "clarification_request"
                          /\ last'.reply.items = a.uncertain_items
                          /\ last'.reply.reasons = a.uncertainty_reasons]_vars

\* a record stored at a later hour for a text submission with two uncertain
\* items
C24_Witness ==
    /\ last.op = "submit"
    /\ last.outcome = "NeedsClarification"
    /\ now > 0
    /\ \E e \in pending_clarifications :
           /\ e[1] = last.user
           /\ e[2].timestamp = now
           /\ e[2].media_type = "text"
           /\ Len(e[2].uncertain_items) = 2

\* C25 (SpecService): after a store, a clear that removed a record or a
\* sweep that removed at least one record, each with a successful write, a
\* service loading the storage file has exactly the pending set of the
\* service that wrote it.
C25_WriteThrough ==
    (/\ \/ last.op = "store"
        \/ last.op = "clear" /\ last.existed
        \/ last.op = "sweep" /\ last.printed # <<>>
     /\ last.io = "ok")
        => /\ storage_file.state = "ok"
           /\ ClarificationService(storage_file) = pending_clarifications
           /\ Cardinality(storage_file.data)
                  = Cardinality(pending_clarifications)

\* a sweep that removed a record, wrote the file and left a record behind
C25_Witness ==
    /\ last.op = "sweep"
    /\ last.printed # <<>>
    /\ last.io = "ok"
    /\ pending_clarifications # {}

\* C26 (Spec): a clarification whose merged result could not be saved has
\* nevertheless cleared the pending record: clear was called once, nothing
\* was stored again and the user has no pending record.
C26_ClearedBeforeSave ==
    (/\ last.op = "submit"
     /\ last.path = "clarify"
     /\ last.outcome = "Resolved"
     /\ ~last.saved)
        => /\ last.clears = 1
           /\ last.stores = 0
           /\ last.reply.msg \in {"error_occurred", "failed_to_save"}
           /\ ~has_pending_clarification(pending_clarifications, last.user)

\* a clarification that was not saved and left the user without a record
C26_Witness ==
    /\ last.op = "submit"
    /\ last.path = "clarify"
    /\ last.outcome = "Resolved"
    /\ ~last.saved
    /\ ~has_pending_clarification(pending_clarifications, last.user)

\* C27 (Spec): with every write succeeding, a submission or /cancel of one
\* user never puts into the storage file the record of another user that
\* the file did not hold (the cleanup job or the abort button removed it).
C27_RemovedStaysRemoved ==
    [][(io_failures' = 0 /\ last'.op \in {"submit", "cancel"}) =>
           \A u \in Users \ {last'.user} :
               ~has_pending_clarification(
                    ClarificationService(storage_file), u)
                   => ~has_pending_clarification(
                           ClarificationService(storage_file'), u)]_vars

\* C28 (SpecService): when the file holds what the service holds, a store
\* or clear for one user, however its write ends, leaves the record of
\* every other user in the file as it was, and a sweep leaves every record
\* that is not expired.
C28_OtherRecordsSurvive ==
    [][ClarificationService(storage_file) = pending_clarifications =>
           /\ last'.op \in {"store", "clear"} =>
                  \A v \in Users \ {last'.user} :
                      get_pending_clarification(
                          ClarificationService(storage_file'), v)
                          = get_pending_clarification(
                                ClarificationService(storage_file), v)
           /\ last'.op = "sweep" =>
                  \A e \in ClarificationService(storage_file) :
                      ~IsExpired(e[2], now - max_age_hours)
                          => e \in ClarificationService(storage_file')]_vars

\* C29 (SpecLoad): after construction the pending set is either empty or
\* exactly the file's records, one per entry; it is empty when the file is
\* missing, is not JSON or has an entry that does not load.
C29_LoadAllOrNothing ==
    last.op = "restart"
        => /\ \/ pending_clarifications = {}
              \/ /\ storage_file.state = "ok"
                 /\ \A j \in storage_file.data : Loadable(j)
                 /\ pending_clarifications
                        = {LoadEntry(j) : j \in storage_file.data}
                 /\ Cardinality(pending_clarifications)
                        = Cardinality(storage_file.data)
           /\ (\/ storage_file.state # "ok"
               \/ \E j \in storage_file.data : ~Loadable(j))
                  => pending_clarifications = {}
           /\ (/\ storage_file.state = "ok"
               /\ \A j \in storage_file.data : Loadable(j))
                  => \A j \in storage_file.data :
                         LoadEntry(j) \in pending_clarifications

\* a file with two entries that load and one that does not: the service
\* starts empty
C29_Witness ==
    /\ last.op = "restart"
    /\ storage_file.state = "ok"
    /\ Cardinality({j \in storage_file.data : Loadable(j)}) = 2
    /\ Cardinality({j \in storage_file.data : ~Loadable(j)}) = 1
    /\ pending_clarifications = {}

\* C30 (SpecAccess): a submission, /cancel, /status or abort callback of a
\* user who is not allowed changes neither the handlers' service nor the
\* storage file and starts no provider call.
C30_UnauthorizedChangesNothing ==
    [][(/\ last'.op \in {"submit", "cancel", "status", "abort"}
        /\ ~is_user_allowed(last'.user))
           => /\ pending_clarifications' = pending_clarifications
              /\ storage_file' = storage_file
              /\ inflight' = inflight]_vars

\* C32 (Spec): /status of a user with a pending record reports the whole
\* number of minutes between the record's timestamp and now, also for a
\* record that is 24 hours old or older.
C32_StatusElapsedMinutes ==
    (last.op = "status" /\ last.reply.msg = "pending_clarification_status")
        => last.reply.minutes
               = (now - get_pending_clarification(pending_clarifications,
                                                  last.user).timestamp) * 60

====
